---------------------------- MODULE Spec2Model ----------------------------
(***************************************************************************)
(* A model of scripts/aem.js: the block discovery, resource loading and    *)
(* custom-element upgrade pipeline (initialize and its loaders), and the   *)
(* Block base component.                                                   *)
(*                                                                         *)
(* JavaScript runs one task at a time.  A synchronous stretch of code is   *)
(* cut into steps by pc; while pc is inside such a stretch no callback of  *)
(* another task is enabled.  pc rests at an await ("awaitPreload",         *)
(* "awaitLoads") while the promise continuations of the loaders run.       *)
(*                                                                         *)
(* Names (class names, tag names) are sequences of their '-'-separated     *)
(* tokens: the tag aem-section-metadata is <<"aem","section","metadata">>. *)
(***************************************************************************)
EXTENDS Naturals, Sequences, FiniteSets, TLC

VARIABLES
  pc,          \* position of the running task (initialize / a discovery pass)
  trees,       \* trees[1]: the live document; trees[2..]: detached subtrees
  nextId,      \* next fresh node identity
  frag,        \* the .fragment placeholders and their preloadFragment calls
  log,         \* console.warn / console.error records
  scanList,    \* the static NodeList of the running getBlockResources pass
  scanIdx,     \* forEach position in scanList
  components,  \* Set "components" of the pass (insertion ordered)
  templates,   \* Set "templates" of the pass (insertion ordered)
  transformed, \* history: identities passed to transformToCustomElement
  passes,      \* number of completed discovery passes
  treqs,       \* loadTemplate calls
  breqs,       \* loadBlock calls
  cache,       \* ids of the <template> elements present in the document
  fetchLog,    \* history: the kinds whose template was fetched, in order
  defined,     \* the customElements registry
  defineCalls, \* history: names passed to customElements.define
  regIdx,      \* forEach position in loadedComponents.value
  bodyStatus,  \* document.body.dataset.status
  blk,         \* one Block component instance
  rum          \* sampleRUM's own properties, window.hlx.rum and its effects

domVars   == <<trees, nextId, scanList, scanIdx, components, templates,
               transformed, passes>>
pageVars  == <<frag, log>>
loadVars  == <<treqs, breqs, cache, fetchLog>>
regVars   == <<defined, defineCalls, regIdx, bodyStatus>>
vars      == <<pc, domVars, pageVars, loadVars, regVars, blk, rum>>

-----------------------------------------------------------------------------
(* Bounds *)

\* authored items (header, headings, pictures, blocks) in the page of an
\* initialize() run
MaxBlocks == 1
\* elements in a document handed to repeated discovery
MaxScanNodes == 2
\* discovery passes run over such a document
MaxPasses == 2
\* .fragment placeholders in the page
NumFragments == 1
\* loadTemplate calls over a page's life
MaxRequests == 3
\* children of a component when it is constructed
MaxItems == 2
\* children added to a component after its construction
MaxAdded == 2

-----------------------------------------------------------------------------
(* The document: a tree in preorder, each node with its depth *)

Range(s) == {s[i] : i \in 1..Len(s)}

\* an element: identity, tag name, class attribute (<<>>: none),
\* data-status ("unset": no such attribute), slot attribute ("": none),
\* its own text or markup apart from the child elements modelled, depth
Node(id, tag, cls, status, depth) ==
  [id |-> id, tag |-> tag, cls |-> cls, status |-> status, slot |-> "",
   text |-> "", depth |-> depth]

\* last index of the subtree rooted at index i of tree t
SubtreeEnd(t, i) ==
  LET outside == {j \in (i+1)..Len(t) : t[j].depth <= t[i].depth}
  IN  IF outside = {} THEN Len(t)
      ELSE (CHOOSE j \in outside : \A k \in outside : j <= k) - 1

\* <<tree index, node index>> of the node with identity id
Locate(ts, id) ==
  CHOOSE p \in UNION {{<<a, b>> : b \in 1..Len(ts[a])} : a \in 1..Len(ts)} :
    ts[p[1]][p[2]].id = id

NodeOf(ts, id) == LET p == Locate(ts, id) IN ts[p[1]][p[2]]

AllIds(ts) == UNION {{ts[a][b].id : b \in 1..Len(ts[a])} : a \in 1..Len(ts)}

SetStatus(ts, id, s) ==
  LET p == Locate(ts, id)
  IN  [ts EXCEPT ![p[1]][p[2]].status = s]

-----------------------------------------------------------------------------
(* Resource discovery: getBlockResources and transformToCustomElement *)

\* the selector 'header, footer, div[class]:not(.fragment)'
Eligible(n) ==
  \/ n.tag = <<"header">>
  \/ n.tag = <<"footer">>
  \/ n.tag = <<"div">> /\ n.cls # <<>> /\ n.cls # <<"fragment">>

\* document.querySelectorAll(selector): the matching elements of the live
\* document, in document order, as a static list of identities
querySelectorAll(ts) ==
  LET hits == SelectSeq(ts[1], Eligible)
  IN  [i \in 1..Len(hits) |-> hits[i].id]

\* `aem-${block.getAttribute('class') || block.tagName.toLowerCase()}`
TagNameFor(n) == <<"aem">> \o (IF n.cls # <<>> THEN n.cls ELSE n.tag)

\* block.parentNode: null exactly for the root of a detached subtree
HasParent(ts, id) ==
  LET p == Locate(ts, id) IN p[1] = 1 \/ p[2] > 1

\* transformToCustomElement(block), fresh identities from n on: the new
\* element takes the block's place and a copy of its markup; the block and
\* its own descendants become a detached subtree (appended to the forest)
transformToCustomElement(ts, id, n) ==
  LET p      == Locate(ts, id)
      t      == ts[p[1]]
      i      == p[2]
      j      == SubtreeEnd(t, i)
      custom == Node(n, TagNameFor(t[i]), <<>>, "unset", t[i].depth)
      copies == [k \in 1..(j - i) |->
                   [t[i + k] EXCEPT
                      !.id   = n + k,
                      !.slot = IF t[i + k].depth = t[i].depth + 1
                               THEN "item" ELSE @]]
      old    == [k \in 1..(j - i + 1) |->
                   [t[i + k - 1] EXCEPT !.depth = @ - t[i].depth]]
  IN  Append([ts EXCEPT ![p[1]] = SubSeq(t, 1, i - 1) \o <<custom>> \o copies
                                    \o SubSeq(t, j + 1, Len(t))],
             old)

\* number of identities transformToCustomElement(ts, id, _) uses up
FreshNeeded(ts, id) ==
  LET p == Locate(ts, id) IN SubtreeEnd(ts[p[1]], p[2]) - p[2] + 1

\* Set.prototype.add on an insertion-ordered Set
SetAdd(s, x) == IF x \in Range(s) THEN s ELSE Append(s, x)

\* the suffix test left out
EndsWithMetadataNever(tag) == FALSE

\* tagName.endsWith('-metadata')
EndsWithMetadata(tag) == Len(tag) >= 2 /\ tag[Len(tag)] = "metadata"

\* status === 'loading' || status === 'loaded'
AlreadyProcessedWeak(status) == status = "loaded"
AlreadyProcessed(status) == status \in {"loading", "loaded"}

\* getBlockResources, lines 321-325: fresh Sets and the NodeList
BeginScan ==
  /\ scanList'   = querySelectorAll(trees)
  /\ scanIdx'    = 1
  /\ components' = <<>>
  /\ templates'  = <<>>

\* forEach callback, lines 327-331: skip a marked block, else mark it loading
ScanCheck ==
  /\ pc = "scan"
  /\ scanIdx <= Len(scanList)
  /\ LET b == scanList[scanIdx] IN
       IF AlreadyProcessed(NodeOf(trees, b).status)
       THEN /\ scanIdx' = scanIdx + 1
            /\ UNCHANGED <<pc, trees>>
       ELSE /\ trees' = SetStatus(trees, b, "loading")
            /\ pc' = "scanBody"
            /\ UNCHANGED scanIdx
  /\ UNCHANGED <<nextId, scanList, components, templates, transformed, passes>>
  /\ UNCHANGED <<pageVars, loadVars, regVars, blk, rum>>

\* forEach callback, lines 333-343: transform, record the kinds, mark loaded
ScanTransform ==
  /\ pc = "scanBody"
  /\ LET b == scanList[scanIdx] IN
       IF ~HasParent(trees, b)
       THEN \* block.parentNode is null: TypeError, the pass is abandoned
            /\ pc' = "threw"
            /\ UNCHANGED <<trees, nextId, scanIdx, components, templates,
                           transformed>>
       ELSE LET tagName == TagNameFor(NodeOf(trees, b)) IN
            /\ trees' = SetStatus(transformToCustomElement(trees, b, nextId),
                                   b, "loaded")
            /\ nextId' = nextId + FreshNeeded(trees, b)
            /\ transformed' = Append(transformed, b)
            /\ components' = SetAdd(components, tagName)
            /\ templates' = IF ~EndsWithMetadata(tagName)
                             THEN SetAdd(templates, tagName) ELSE templates
            /\ scanIdx' = scanIdx + 1
            /\ pc' = "scan"
  /\ UNCHANGED <<scanList, passes>>
  /\ UNCHANGED <<pageVars, loadVars, regVars, blk, rum>>

-----------------------------------------------------------------------------
(* Repeated discovery over one document *)

Statuses == {"unset", "loading", "loaded"}

\* the elements a document is drawn from: a header, two kinds of content
\* block, an unclassed wrapper div and a fragment placeholder
ScanShapes ==
  ({<<<<"header">>, <<>>>>, <<<<"div">>, <<"cards">>>>,
    <<<<"div">>, <<"section", "metadata">>>>} \X Statuses)
  \cup ({<<<<"div">>, <<>>>>, <<<<"div">>, <<"fragment">>>>} \X {"unset"})

ValidDepths(d) ==
  /\ Len(d) > 0 => d[1] = 0
  /\ \A i \in 1..(Len(d) - 1) : d[i + 1] <= d[i] + 1

DocsOver(shapes, n) ==
  UNION {
    {[i \in 1..len |-> Node(i, sh[i][1][1], sh[i][1][2], sh[i][2], d[i])] :
       sh \in [1..len -> shapes],
       d \in {e \in [1..len -> 0..(n - 1)] : ValidDepths(e)}} :
    len \in 0..n}

\* the state before any of the program has run, apart from the document,
\* the registry and the component
InitRest ==
  /\ frag = <<>>
  /\ log = {}
  /\ scanList = <<>> /\ scanIdx = 1
  /\ components = <<>> /\ templates = <<>>
  /\ transformed = <<>> /\ passes = 0
  /\ treqs = <<>> /\ breqs = <<>>
  /\ cache = {} /\ fetchLog = <<>>
  /\ defineCalls = <<>> /\ regIdx = 1
  /\ bodyStatus = "unset"

\* sampleRUM has not been called
RumIdle == rum = [installed |-> FALSE]

InitIdle ==
  /\ InitRest
  /\ blk = [constructed |-> FALSE]
  /\ RumIdle

ScanInit ==
  /\ InitIdle
  /\ pc = "idle"
  /\ defined = {}
  /\ \E doc \in DocsOver(ScanShapes, MaxScanNodes) :
       /\ trees = <<doc>>
       /\ nextId = Len(doc) + 1

\* a call of getBlockResources()
ScanStart ==
  /\ pc = "idle"
  /\ passes < MaxPasses
  /\ pc' = "scan"
  /\ BeginScan
  /\ UNCHANGED <<trees, nextId, transformed, passes>>
  /\ UNCHANGED <<pageVars, loadVars, regVars, blk, rum>>

\* line 346: the pass returns { components, templates }
ScanReturn ==
  /\ pc = "scan"
  /\ scanIdx > Len(scanList)
  /\ pc' = "idle"
  /\ passes' = passes + 1
  /\ UNCHANGED <<trees, nextId, scanList, scanIdx, components, templates,
                 transformed>>
  /\ UNCHANGED <<pageVars, loadVars, regVars, blk, rum>>

ScanNext == ScanStart \/ ScanCheck \/ ScanTransform \/ ScanReturn

ScanSpec == ScanInit /\ [][ScanNext]_vars

-----------------------------------------------------------------------------
(* Hero promotion: buildHeroBlock *)

MinOf(S) == CHOOSE i \in S : \A j \in S : i <= j

\* index of the first element of S in document order, 0 for null
FirstIdx(S) == IF S = {} THEN 0 ELSE MinOf(S)

\* index of the parent element, 0 when the node is a root of its tree
ParentIdx(t, i) ==
  LET up == {j \in 1..(i - 1) : t[j].depth = t[i].depth - 1}
  IN  IF up = {} THEN 0 ELSE CHOOSE j \in up : \A k \in up : k <= j

\* the nodes of t at the indices in K, in order
KeepSeq(t, K) ==
  [k \in 1..Cardinality(K) |->
     t[CHOOSE i \in K : Cardinality({j \in K : j < i}) = k - 1]]

Subtree(t, i) == i..SubtreeEnd(t, i)

\* node.cloneNode(true) placed at depth d, identities from n on
CloneAt(t, i, d, n) ==
  [k \in 1..(SubtreeEnd(t, i) - i + 1) |->
     [t[i + k - 1] EXCEPT !.id = n + k - 1, !.depth = @ - t[i].depth + d]]

MainIdx(t) == FirstIdx({i \in 1..Len(t) : t[i].tag = <<"main">>})

\* main.querySelector('main h1')
HeroH1(t) ==
  FirstIdx({i \in Subtree(t, MainIdx(t)) \ {MainIdx(t)} : t[i].tag = <<"h1">>})

\* main.querySelector('main p > picture')
HeroPicture(t) ==
  FirstIdx({i \in Subtree(t, MainIdx(t)) \ {MainIdx(t)} :
              /\ t[i].tag = <<"picture">>
              /\ ParentIdx(t, i) # 0
              /\ t[ParentIdx(t, i)].tag = <<"p">>})

\* h1 && picture, in either order
HeroCandidateAnyOrder(t) ==
  /\ HeroH1(t) # 0
  /\ HeroPicture(t) # 0

\* h1 && picture && (h1.compareDocumentPosition(picture) & PRECEDING)
HeroCandidate(t) ==
  /\ HeroH1(t) # 0
  /\ HeroPicture(t) # 0
  /\ HeroPicture(t) < HeroH1(t)

\* identities buildHeroBlock uses up on t
HeroFresh(t) ==
  IF HeroCandidate(t)
  THEN 1 + Cardinality(Subtree(t, HeroPicture(t)))
         + Cardinality(Subtree(t, HeroH1(t)))
  ELSE 0

\* the section put last into main (append for prepend)
HeroSectionAppended(t, n, m, h1, picture) ==
  LET d       == t[m].depth
      picLen  == SubtreeEnd(t, picture) - picture + 1
      section == <<Node(n, <<"div">>, <<"hero">>, "unset", d + 1)>>
                 \o CloneAt(t, picture, d + 2, n + 1)
                 \o CloneAt(t, h1, d + 2, n + 1 + picLen)
      gone    == Subtree(t, ParentIdx(t, picture)) \cup Subtree(t, h1)
  IN  SubSeq(t, 1, m)
      \o KeepSeq(t, ((m + 1)..SubtreeEnd(t, m)) \ gone) \o section
      \o KeepSeq(t, ((SubtreeEnd(t, m) + 1)..Len(t)) \ gone)

\* lines 131-139, with main, h1 and picture found: picture's paragraph and
\* h1 are removed and the section is put first into main
HeroSection(t, n, m, h1, picture) ==
  LET d       == t[m].depth
      picLen  == SubtreeEnd(t, picture) - picture + 1
      section == <<Node(n, <<"div">>, <<"hero">>, "unset", d + 1)>>
                 \o CloneAt(t, picture, d + 2, n + 1)
                 \o CloneAt(t, h1, d + 2, n + 1 + picLen)
      gone    == Subtree(t, ParentIdx(t, picture)) \cup Subtree(t, h1)
  IN  SubSeq(t, 1, m) \o section
      \o KeepSeq(t, ((m + 1)..Len(t)) \ gone)

\* buildHeroBlock on the live document t (which has a <main>)
buildHeroBlock(t, n) ==
  IF ~HeroCandidate(t) THEN t
  ELSE CHOOSE r \in {HeroSection(t, n, m, h1, picture) :
                       m \in {MainIdx(t)}, h1 \in {HeroH1(t)},
                       picture \in {HeroPicture(t)}} : TRUE

-----------------------------------------------------------------------------
(* The page of an initialize() run *)

Renumber(t) == [i \in 1..Len(t) |-> [t[i] EXCEPT !.id = i]]

RECURSIVE Flatten(_)
Flatten(ss) == IF ss = <<>> THEN <<>> ELSE Head(ss) \o Flatten(Tail(ss))

\* what an author puts into <main>, as nodes under a <main> of depth 0: a
\* heading, a picture paragraph, the two in either order, a content block,
\* a metadata block
ItemNodes(item) ==
  LET h1  == <<Node(0, <<"h1">>, <<>>, "unset", 1)>>
      pic == <<Node(0, <<"p">>, <<>>, "unset", 1),
               Node(0, <<"picture">>, <<>>, "unset", 2)>>
  IN
  CASE item = "h1"    -> h1
    [] item = "pic"   -> pic
    [] item = "picH1" -> pic \o h1
    [] item = "h1Pic" -> h1 \o pic
    [] item = "cards" -> <<Node(0, <<"div">>, <<"cards">>, "unset", 1)>>
    [] item = "meta"  -> <<Node(0, <<"div">>, <<"section", "metadata">>,
                                "unset", 1)>>
    \* a fragment placeholder, with and without the nested path element
    [] item = "frag"  -> <<Node(0, <<"div">>, <<"fragment">>, "unset", 1),
                           [Node(0, <<"div">>, <<>>, "unset", 2)
                              EXCEPT !.text = "path"]>>
    [] item = "fragNoPath" ->
                         <<Node(0, <<"div">>, <<"fragment">>, "unset", 1)>>

SeqsUpTo(S, n) == UNION {[1..len -> S] : len \in 0..n}

\* a page: an optional <header>, then <main> with its items and fragment
\* placeholders; the header counts as one of the MaxBlocks items
Pages ==
  UNION {
    {Renumber((IF hdr THEN <<Node(0, <<"header">>, <<>>, "unset", 0)>>
                      ELSE <<>>)
              \o <<Node(0, <<"main">>, <<>>, "unset", 0)>>
              \o Flatten([i \in 1..Len(items) |-> ItemNodes(items[i])])
              \o Flatten([i \in 1..Len(frs) |-> ItemNodes(frs[i])])) :
       items \in SeqsUpTo({"h1", "pic", "picH1", "h1Pic", "cards", "meta"},
                          IF hdr THEN MaxBlocks - 1 ELSE MaxBlocks),
       frs \in SeqsUpTo({"frag", "fragNoPath"}, NumFragments)} :
    hdr \in BOOLEAN}

\* the block a fetched fragment's markup holds
FragmentBlock(id, depth) == Node(id, <<"div">>, <<"cards">>, "unset", depth)

-----------------------------------------------------------------------------
(* Fragment preload: preloadFragment *)

\* no synchronous code is running: promise continuations may run
Suspended == pc \in {"idle", "awaitPreload", "awaitLoads", "done"}

\* [...document.querySelectorAll('.fragment')]
FragmentElements(t) ==
  LET hits == SelectSeq(t, LAMBDA n : n.cls = <<"fragment">>)
  IN  [i \in 1..Len(hits) |-> hits[i].id]

\* element.querySelector('div > div'): the first descendant div whose
\* parent is a div; 0 for null
FragmentSlot(t, el) ==
  LET e  == CHOOSE i \in 1..Len(t) : t[i].id = el
      ix == FirstIdx({i \in Subtree(t, e) \ {e} :
                        /\ t[i].tag = <<"div">>
                        /\ t[ParentIdx(t, i)].tag = <<"div">>})
  IN  IF ix = 0 THEN 0 ELSE t[ix].id

\* preloadFragment(element) up to its first await (lines 350-356)
preloadFragmentCall(t, el) ==
  LET slot == FragmentSlot(t, el) IN
  IF slot = 0
  THEN \* slot.innerText on null: the async function's promise rejects
       [el |-> el, slot |-> 0, stage |-> "done", promise |-> "rejected",
        res |-> "none"]
  ELSE [el |-> el, slot |-> slot, stage |-> "fetching", promise |-> "pending",
        res |-> "none"]

\* slot.innerHTML = markup: the slot's children are replaced by the
\* elements of the markup
SetSlotMarkup(t, slot, text, kids) ==
  LET i == CHOOSE k \in 1..Len(t) : t[k].id = slot
  IN  SubSeq(t, 1, i - 1) \o <<[t[i] EXCEPT !.text = text]>> \o kids
      \o SubSeq(t, SubtreeEnd(t, i) + 1, Len(t))

SlotDepth(t, slot) == (CHOOSE n \in Range(t) : n.id = slot).depth

SlotText(t, slot) == (CHOOSE n \in Range(t) : n.id = slot).text

\* lines 356-361 and 364-367: the fetch settles
preloadFragmentFetchedNoCatch(f, outcome) ==
  CASE outcome = "netfail" -> [f EXCEPT !.stage = "done", !.res = "netfail",
                                        !.promise = "rejected"]
    [] OTHER               -> [f EXCEPT !.stage = "reading", !.res = outcome]

preloadFragmentFetched(f, outcome) ==
  CASE outcome = "netfail" -> [f EXCEPT !.stage = "done", !.res = "netfail",
                                        !.promise = "fulfilled"]
    [] OTHER               -> [f EXCEPT !.stage = "reading", !.res = outcome]

PreloadFetchSettles(i, outcome) ==
  /\ Suspended
  /\ frag[i].stage = "fetching"
  /\ frag' = [frag EXCEPT ![i] = preloadFragmentFetched(frag[i], outcome)]
  /\ log' = CASE outcome = "netfail" -> log \cup {<<"error", "fragment", i>>}
              [] outcome = "notok"   -> log \cup {<<"warn", "fragment", i>>}
              [] OTHER               -> log
  /\ UNCHANGED <<pc, domVars, loadVars, regVars, blk, rum>>

\* the markup written into the slot once the body was read (line 363)
SlotWrite(t, f, n) ==
  IF f.res = "ok"
  THEN SetSlotMarkup(t, f.slot, "fetched",
                     <<FragmentBlock(n, SlotDepth(t, f.slot) + 1)>>)
  ELSE SetSlotMarkup(t, f.slot, "errbody", <<>>)

\* lines 363-367: res.text() settles
PreloadTextSettles(i, readable) ==
  /\ Suspended
  /\ frag[i].stage = "reading"
  /\ frag' = [frag EXCEPT ![i].stage = "done", ![i].promise = "fulfilled"]
  /\ IF readable
     THEN /\ trees' = [trees EXCEPT ![1] = SlotWrite(trees[1], frag[i], nextId)]
          /\ nextId' = IF frag[i].res = "ok" THEN nextId + 1 ELSE nextId
          /\ UNCHANGED log
     ELSE /\ log' = log \cup {<<"error", "fragment", i>>}
          /\ UNCHANGED <<trees, nextId>>
  /\ UNCHANGED <<pc, scanList, scanIdx, components, templates, transformed,
                 passes, loadVars, regVars, blk, rum>>

-----------------------------------------------------------------------------
(* The loaders: loadTemplate and loadBlock *)

\* loadTemplate(blockName) up to the fetch (lines 7-19), given the ids of
\* the templates in the document
loadTemplateCall(kind, cached) ==
  IF kind \in cached
  THEN [kind |-> kind, block |-> TRUE, stage |-> "done",
        promise |-> "fulfilled", res |-> "none"]
  ELSE [kind |-> kind, block |-> FALSE, stage |-> "fetching",
        promise |-> "pending", res |-> "none"]

\* lines 19-39: the fetch settles.  A rejected fetch has no handler: the
\* promise loadTemplate returned is then never settled.
loadTemplateFetched(r, outcome) ==
  CASE outcome = "ok"      -> [r EXCEPT !.res = outcome, !.stage = "reading"]
    [] outcome = "notok"   -> [r EXCEPT !.res = outcome, !.stage = "done",
                                        !.promise = "rejected"]
    [] outcome = "netfail" -> [r EXCEPT !.res = outcome, !.stage = "done"]

TemplateFetchSettles(i, outcome) ==
  /\ Suspended
  /\ treqs[i].stage = "fetching"
  /\ treqs' = [treqs EXCEPT ![i] = loadTemplateFetched(treqs[i], outcome)]
  /\ UNCHANGED <<pc, domVars, pageVars, breqs, cache, fetchLog, regVars, blk, rum>>

\* lines 23-35: response.text() settles; body says what the markup's first
\* node is ("template": a <template> element, "other": any other node,
\* "empty": none) or that the body could not be read ("unreadable")
TemplateBodies == {"template", "other", "empty", "unreadable"}

TemplateTextSettles(i, body) ==
  /\ Suspended
  /\ treqs[i].stage = "reading"
  /\ treqs' = [treqs EXCEPT ![i].stage = "done", ![i].promise = "fulfilled"]
  /\ cache' = IF body = "template" THEN cache \cup {treqs[i].kind} ELSE cache
  /\ UNCHANGED <<pc, domVars, pageVars, breqs, fetchLog, regVars, blk, rum>>

\* loadBlock(blockName) up to the import (lines 49-52)
loadBlockCall(kind) ==
  [kind |-> kind, stage |-> "importing", promise |-> "pending", mod |-> "none"]

\* lines 53-65: the import settles: with a module that has a default export
\* ("class"), with one that has none ("nodefault"), or not at all ("fail")
loadBlockImported(r, outcome) ==
  CASE outcome = "class"     -> [r EXCEPT !.mod = outcome, !.stage = "done",
                                          !.promise = "fulfilled"]
    [] outcome = "nodefault" -> [r EXCEPT !.mod = outcome, !.stage = "done"]
    [] outcome = "fail"      -> [r EXCEPT !.mod = outcome, !.stage = "done",
                                          !.promise = "rejected"]

ImportSettles(i, outcome) ==
  /\ Suspended
  /\ breqs[i].stage = "importing"
  /\ breqs' = [breqs EXCEPT ![i] = loadBlockImported(breqs[i], outcome)]
  /\ log' = IF outcome = "fail"
            THEN log \cup {<<"warn", "module", breqs[i].kind>>} ELSE log
  /\ UNCHANGED <<pc, domVars, frag, treqs, cache, fetchLog, regVars, blk, rum>>

-----------------------------------------------------------------------------
(* initialize *)

\* the registry as other scripts may have left it before initialize runs
PreDefined == {{}, {<<"aem", "cards">>}}

Init ==
  /\ InitIdle
  /\ pc = "start"
  /\ defined \in PreDefined
  /\ \E page \in Pages :
       /\ trees = <<page>>
       /\ nextId = Len(page) + 1

\* lines 374-377: setup() and loadEagerImages()
Setup ==
  /\ pc = "start"
  /\ pc' = "hero"
  /\ UNCHANGED <<domVars, pageVars, loadVars, regVars, blk, rum>>

\* line 380
BuildHero ==
  /\ pc = "hero"
  /\ IF MainIdx(trees[1]) = 0
     THEN \* document.querySelector('main') is null: TypeError
          /\ pc' = "threw"
          /\ UNCHANGED <<trees, nextId>>
     ELSE /\ trees' = [trees EXCEPT ![1] = buildHeroBlock(trees[1], nextId)]
          /\ nextId' = nextId + HeroFresh(trees[1])
          /\ pc' = "preload"
  /\ UNCHANGED <<scanList, scanIdx, components, templates, transformed, passes>>
  /\ UNCHANGED <<pageVars, loadVars, regVars, blk, rum>>

\* line 384: preloadFragment is called on every .fragment element
StartPreloads ==
  /\ pc = "preload"
  /\ LET els == FragmentElements(trees[1]) IN
       frag' = [i \in 1..Len(els) |-> preloadFragmentCall(trees[1], els[i])]
  /\ pc' = "awaitPreload"
  /\ UNCHANGED <<domVars, log, loadVars, regVars, blk, rum>>

\* Promise.allSettled over the preloads (line 383)
PreloadsSettledNoWait == TRUE
PreloadsSettled == \A i \in 1..Len(frag) : frag[i].promise # "pending"

\* line 388: initialize resumes and calls getBlockResources
StartDiscovery ==
  /\ pc = "awaitPreload"
  /\ PreloadsSettled
  /\ pc' = "scan"
  /\ BeginScan
  /\ UNCHANGED <<trees, nextId, transformed, passes>>
  /\ UNCHANGED <<pageVars, loadVars, regVars, blk, rum>>

\* the kinds of the requests of rs that went to the network
Fetching(rs) ==
  LET fs == SelectSeq(rs, LAMBDA r : r.stage = "fetching")
  IN  [i \in 1..Len(fs) |-> fs[i].kind]

\* lines 346 and 390-393: getBlockResources returns; the template and the
\* code batch are issued
IssueLoads ==
  /\ pc = "scan"
  /\ scanIdx > Len(scanList)
  /\ passes' = passes + 1
  /\ treqs' = [i \in 1..Len(templates) |-> loadTemplateCall(templates[i], cache)]
  /\ fetchLog' = fetchLog \o Fetching(treqs')
  /\ breqs' = [i \in 1..Len(components) |-> loadBlockCall(components[i])]
  /\ pc' = "awaitLoads"
  /\ UNCHANGED <<trees, nextId, scanList, scanIdx, components, templates,
                 transformed>>
  /\ UNCHANGED <<pageVars, cache, regVars, blk, rum>>

\* the two joined batches of line 390
BatchesSettledAny ==
  \/ \E i \in 1..Len(treqs) : treqs[i].promise # "pending"
  \/ \E i \in 1..Len(breqs) : breqs[i].promise # "pending"
BatchesSettled ==
  /\ \A i \in 1..Len(treqs) : treqs[i].promise # "pending"
  /\ \A i \in 1..Len(breqs) : breqs[i].promise # "pending"

\* line 396: initialize resumes with loadedComponents
BeginRegister ==
  /\ pc = "awaitLoads"
  /\ BatchesSettled
  /\ pc' = "register"
  /\ regIdx' = 1
  /\ UNCHANGED <<domVars, pageVars, loadVars, defined, defineCalls, bodyStatus,
                 blk, rum>>

\* lines 396-403: one entry of loadedComponents.value
DefineStep ==
  /\ pc = "register"
  /\ regIdx <= Len(breqs)
  /\ LET r == breqs[regIdx] IN
       IF r.promise = "fulfilled" /\ r.kind \notin defined
       THEN /\ defined' = defined \cup {r.kind}
            /\ defineCalls' = Append(defineCalls, r.kind)
       ELSE UNCHANGED <<defined, defineCalls>>
  /\ regIdx' = regIdx + 1
  /\ UNCHANGED <<pc, domVars, pageVars, loadVars, bodyStatus, blk, rum>>

\* line 406
MarkLoaded ==
  /\ pc = "register"
  /\ regIdx > Len(breqs)
  /\ bodyStatus' = "loaded"
  /\ pc' = "done"
  /\ UNCHANGED <<domVars, pageVars, loadVars, defined, defineCalls, regIdx, blk, rum>>

Next ==
  \/ Setup
  \/ BuildHero
  \/ StartPreloads
  \/ \E i \in 1..Len(frag), o \in {"ok", "notok", "netfail"} :
       PreloadFetchSettles(i, o)
  \/ \E i \in 1..Len(frag), readable \in BOOLEAN : PreloadTextSettles(i, readable)
  \/ StartDiscovery
  \/ ScanCheck
  \/ ScanTransform
  \/ IssueLoads
  \/ \E i \in 1..Len(treqs), o \in {"ok", "notok", "netfail"} :
       TemplateFetchSettles(i, o)
  \/ \E i \in 1..Len(treqs), b \in TemplateBodies : TemplateTextSettles(i, b)
  \/ \E i \in 1..Len(breqs), o \in {"class", "nodefault", "fail"} :
       ImportSettles(i, o)
  \/ BeginRegister
  \/ DefineStep
  \/ MarkLoaded

Spec == Init /\ [][Next]_vars

\* initialize up to the start of resource discovery (lines 374-388)
PreloadNext ==
  \/ Setup
  \/ BuildHero
  \/ StartPreloads
  \/ \E i \in 1..Len(frag), o \in {"ok", "notok", "netfail"} :
       PreloadFetchSettles(i, o)
  \/ \E i \in 1..Len(frag), readable \in BOOLEAN : PreloadTextSettles(i, readable)
  \/ StartDiscovery

\* every pending response arrives and every ready continuation runs
FairPreloadSpec == Init /\ [][PreloadNext]_vars /\ WF_vars(PreloadNext)

-----------------------------------------------------------------------------
(* Properties of initialize *)

\* every response has arrived and no continuation is left to run
Quiescent == ~ENABLED Next

\* C1: whatever the outcomes of the fragment, template and code loads, the
\* run of initialize ends with document.body's data-status set to 'loaded':
\* once nothing is left to arrive or to run, the page is marked loaded.
C1_AlwaysReachesLoaded == Quiescent => bodyStatus = "loaded"

\* C2: if one requested code module rejects and another resolves, then at
\* the end of the run the resolved kind is registered, define was not called
\* for the rejected kind, and the page is marked loaded.
C2_CodeFailureIsolated ==
  (/\ Quiescent
   /\ \E i \in 1..Len(breqs) : breqs[i].promise = "rejected"
   /\ \E i \in 1..Len(breqs) : breqs[i].promise = "fulfilled")
  => /\ bodyStatus = "loaded"
     /\ \A i \in 1..Len(breqs) :
          /\ breqs[i].promise = "fulfilled" => breqs[i].kind \in defined
          /\ breqs[i].promise = "rejected" =>
               breqs[i].kind \notin Range(defineCalls)

\* C3: once the import of a loadBlock call has settled, its promise is
\* settled: fulfilled when the module has a default export, rejected when
\* the import failed or the module has no default export.
C3_LoadBlockSettles ==
  \A i \in 1..Len(breqs) :
    breqs[i].stage = "done" =>
      /\ breqs[i].mod = "class" => breqs[i].promise = "fulfilled"
      /\ breqs[i].mod \in {"nodefault", "fail"} => breqs[i].promise = "rejected"

HeroDone == pc \notin {"start", "hero"}
DiscoveryStarted == pc \in {"scan", "scanBody"} \/ passes > 0
DiscoveryDone == passes > 0 /\ pc \notin {"scan", "scanBody"}

\* C4: hero promotion is complete before a fragment preload starts, every
\* preload has settled before discovery starts, and discovery is complete
\* before a template or code request is issued.
C4_PhaseOrder ==
  /\ frag # <<>> => HeroDone
  /\ DiscoveryStarted =>
       HeroDone /\ \A i \in 1..Len(frag) : frag[i].promise \in {"fulfilled", "rejected"}
  /\ (treqs # <<>> \/ breqs # <<>>) => DiscoveryDone

C4_Witness ==
  /\ pc = "awaitLoads"
  /\ Len(frag) >= 1 /\ frag[1].res = "ok"
  /\ <<"aem", "hero">> \in Range(components)
  /\ Len(treqs) >= 2

\* C5: customElements.define is not called before every template and code
\* load has settled, and when the page is marked loaded no registration is
\* left: every fulfilled code load's kind is in the registry.
C5_RegisterAfterBatches ==
  /\ (defineCalls # <<>> \/ pc = "register") =>
       /\ \A i \in 1..Len(treqs) : treqs[i].promise # "pending"
       /\ \A i \in 1..Len(breqs) : breqs[i].promise # "pending"
  /\ bodyStatus = "loaded" =>
       \A i \in 1..Len(breqs) :
         breqs[i].promise = "fulfilled" => breqs[i].kind \in defined

C5_Witness ==
  /\ bodyStatus = "loaded"
  /\ Len(defineCalls) >= 2
  /\ \E i \in 1..Len(treqs) : treqs[i].promise = "rejected"

\* C8: after a preload whose fetch returned a non-success response or
\* failed, the slot holds what it held before and a warning or error was
\* logged; the slot's content is replaced only on a successful response.
C8_FailureKeepsContent ==
  \A i \in 1..Len(frag) :
    (frag[i].stage = "done" /\ frag[i].slot # 0) =>
      /\ frag[i].res \in {"notok", "netfail"} =>
           /\ SlotText(trees[1], frag[i].slot) = "path"
           /\ \E l \in log : l[2] = "fragment" /\ l[3] = i
      /\ SlotText(trees[1], frag[i].slot) # "path" => frag[i].res = "ok"

\* the preloadFragment calls on placeholders with a nested path element
WithPath == {i \in 1..Len(frag) : frag[i].slot # 0}

\* C9: the promise of a preloadFragment call on a placeholder with a nested
\* path element never rejects, whatever the fetch does, and eventually all
\* of them are fulfilled and initialize has gone on to resource discovery.
C9_PreloadNeverRejects ==
  /\ [](\A i \in WithPath : frag[i].promise # "rejected")
  /\ <>(/\ DiscoveryStarted
        /\ \A i \in WithPath : frag[i].promise = "fulfilled")

C9_Witness ==
  /\ DiscoveryStarted
  /\ \E i \in 1..Len(frag) : frag[i].res = "netfail" /\ frag[i].promise = "fulfilled"

-----------------------------------------------------------------------------
(* Template load requests over a page's life *)

\* initialize is the module's export and calls loadTemplate for every kind a
\* discovery pass returns (line 391); a page that runs it again, over content
\* that arrived since, requests a kind's template again, at any point of an
\* earlier request's progress.

LoadKinds == {<<"aem", "cards">>, <<"aem", "hero">>}

LoadInit ==
  /\ InitIdle
  /\ pc = "idle"
  /\ defined = {}
  /\ trees = <<<<>>>>
  /\ nextId = 1

\* a call loadTemplate(kind)
LoadTemplateRequest(kind) ==
  /\ Suspended
  /\ Len(treqs) < MaxRequests
  /\ LET r == loadTemplateCall(kind, cache) IN
       /\ treqs' = Append(treqs, r)
       /\ fetchLog' = fetchLog \o Fetching(<<r>>)
  /\ UNCHANGED <<pc, domVars, pageVars, breqs, cache, regVars, blk, rum>>

LoadNext ==
  \/ \E k \in LoadKinds : LoadTemplateRequest(k)
  \/ \E i \in 1..Len(treqs), o \in {"ok", "notok", "netfail"} :
       TemplateFetchSettles(i, o)
  \/ \E i \in 1..Len(treqs), b \in TemplateBodies : TemplateTextSettles(i, b)

LoadSpec == LoadInit /\ [][LoadNext]_vars

Count(s, x) == Cardinality({i \in 1..Len(s) : s[i] = x})

\* C6: over any sequence and interleaving of template load requests at most
\* one network request is issued per kind, and a request that finds the
\* kind's template in the document resolves without a network request.
C6_OneFetchPerKind ==
  /\ \A k \in LoadKinds : Count(fetchLog, k) <= 1
  /\ \A i \in 1..Len(treqs) :
       treqs[i].block => treqs[i].promise = "fulfilled" /\ treqs[i].res = "none"

-----------------------------------------------------------------------------
(* Properties of repeated discovery *)

StatusIn(ts, id) == NodeOf(ts, id).status

\* the block whose forEach callback is between lines 331 and 333
InFlight(id) == pc = "scanBody" /\ scanList[scanIdx] = id

\* C7: a container marked loading or loaded is not transformed by a later
\* pass and its status is left alone; a pass transforms only a container it
\* found unmarked, which goes unset -> loading -> loaded once; and a pass
\* reports a kind only for a container it transforms.
C7_DiscoveryIdempotent ==
  /\ [](\A i, j \in 1..Len(transformed) :
          transformed[i] = transformed[j] => i = j)
  /\ [][\A id \in AllIds(trees) :
          LET s == StatusIn(trees, id)
              t == StatusIn(trees', id)
          IN  /\ s # t => \/ s = "unset" /\ t = "loading"
                          \/ s = "loading" /\ t = "loaded"
              /\ (s \in {"loading", "loaded"} /\ ~InFlight(id)) =>
                   /\ t = s
                   /\ Count(transformed', id) = Count(transformed, id)]_vars
  /\ [][(pc = "scan" /\ pc' = "scanBody") =>
          StatusIn(trees, scanList[scanIdx]) = "unset"]_vars
  /\ [][(pc = "scanBody" /\ components' # components) =>
          transformed' = Append(transformed, scanList[scanIdx])]_vars

\* a second pass has just skipped a marked container, after a first pass
\* that transformed another one
C7_Witness ==
  /\ passes = 1
  /\ pc = "scan"
  /\ scanIdx = 2
  /\ StatusIn(trees, scanList[1]) \in {"loading", "loaded"}
  /\ scanList[1] \notin Range(transformed)
  /\ transformed # <<>>

-----------------------------------------------------------------------------
(* The base component: class Block *)

\* The component record: constructed / threw (how the constructor ended),
\* mapValues (options.mapValues), values (this.values: a list of child
\* identities, or a Map as a sequence of <<key, value>>), shadow (what was
\* cloned into the shadow root), observer ("none", "installed", "observing"),
\* connected, items (the child elements), and three history fields:
\* extractions (runs of the slots.forEach), attaches (0, 1, 2 for more),
\* added (children appended since construction).

\* a child element of the component: its slot attribute, the text of its own
\* child elements (cells), its markup once rewritten (html, "" while it is
\* as authored), the .icon markers inside it and the <img> appended to them,
\* and the elements inside its last cell that carry slot="item" themselves
\* (nested: the cells of each)
Item(id, slot, cells, icons) ==
  [id |-> id, slot |-> slot, cells |-> cells, html |-> "", icons |-> icons,
   imgs |-> 0, nested |-> <<>>]

\* this.querySelectorAll('[slot="item"]') (line 447): the descendants that
\* carry slot="item", in document order, as a static list; an element is
\* <<i, 0>> for the i-th child and <<i, k>> for the k-th nested element of
\* the i-th child, taken with the cells it has
RECURSIVE SlotItems(_, _)
SlotItems(items, i) ==
  IF i > Len(items) THEN <<>>
  ELSE (IF items[i].slot = "item"
        THEN <<[el |-> <<i, 0>>, cells |-> items[i].cells]>> ELSE <<>>)
       \o [k \in 1..Len(items[i].nested) |->
             [el |-> <<i, k>>, cells |-> items[i].nested[k]]]
       \o SlotItems(items, i + 1)

\* Map.prototype.set on an insertion-ordered Map of <<key, value>> pairs
MapSet(m, k, v) ==
  IF \E i \in 1..Len(m) : m[i][1] = k
  THEN [i \in 1..Len(m) |-> IF m[i][1] = k THEN <<k, v>> ELSE m[i]]
  ELSE Append(m, <<k, v>>)

\* lines 449-460, the slots.forEach over the static list slots from its j-th
\* element on; in mapped mode an element with fewer than two children
\* throws.  Rewriting a child's markup (line 455) detaches the nested
\* elements of the list and leaves copies of them in the child, so a nested
\* element is rewritten outside the component.
RECURSIVE ExtractFrom(_, _, _)
ExtractFrom(b, slots, j) ==
  IF j > Len(slots) THEN b
  ELSE LET e == slots[j]
           i == e.el[1]
       IN
       IF b.mapValues
       THEN IF Len(e.cells) < 2
            THEN [b EXCEPT !.threw = TRUE]
            ELSE ExtractFrom(
                   IF e.el[2] = 0
                   THEN [b EXCEPT !.values = MapSet(@, e.cells[1], e.cells[2]),
                                  !.items[i].slot = e.cells[1],
                                  !.items[i].html = e.cells[2],
                                  !.items[i].cells = <<>>]
                   ELSE [b EXCEPT !.values = MapSet(@, e.cells[1], e.cells[2])],
                   slots, j + 1)
       ELSE ExtractFrom([b EXCEPT !.values = Append(@, e.el)], slots, j + 1)

\* lines 447-461
ExtractValues(b) == ExtractFrom(b, SlotItems(b.items, 1), 1)

\* the constructor (lines 432-472); tmpl is what document.getElementById(id)
\* finds: nothing, a <template>, or another element carrying the id
BlockConstructor(b, mapValues, tmpl) ==
  LET b0 == [b EXCEPT !.mapValues = mapValues, !.values = <<>>]
  IN  IF tmpl = "other"
      THEN \* template.content is undefined: TypeError at line 444
           [b0 EXCEPT !.threw = TRUE]
      ELSE LET b1 == ExtractValues(
                       [b0 EXCEPT !.shadow = tmpl,
                                  !.extractions = @ + 1])
           IN  IF b1.threw THEN b1
               ELSE [b1 EXCEPT !.constructed = TRUE, !.observer = "installed"]

\* connectedCallback (lines 474-477)
connectedCallbackReextract(b) ==
  ExtractValues([b EXCEPT !.observer = "observing", !.values = <<>>,
                          !.extractions = @ + 1])
connectedCallback(b) == [b EXCEPT !.observer = "observing"]

\* disconnectCallback (lines 479-481)
disconnectCallback(b) == [b EXCEPT !.observer = "installed"]

\* the lifecycle methods class Block defines
BlockMethods == {"connectedCallback", "disconnectCallback"}

\* the platform's custom element reaction: the method of that name, if the
\* class has one
React(b, name) ==
  CASE name \notin BlockMethods       -> b
    [] name = "connectedCallback"     -> connectedCallback(b)
    [] name = "disconnectCallback"    -> disconnectCallback(b)

\* the observer's callback (lines 464-471) for one added node: decorateIcon
\* on every .icon inside it
DecorateAdded(b, i) == [b EXCEPT !.items[i].imgs = @ + b.items[i].icons]

\* what a component's authored children are drawn from: rows of a label and
\* a value, a row of one cell, and rows whose value holds a component of
\* its own (whose rows carry slot="item" as well, line 312)
AuthoredItems ==
  {Item(0, "item", c, n) :
     c \in {<<"Style", "highlight">>, <<"Color", "blue">>,
            <<"Style", "dark">>, <<"lonely">>},
     n \in {0, 1}}
  \cup {[Item(0, "item", <<"Color", "blue">>, 0) EXCEPT !.nested = nd] :
          nd \in {<< <<"Size", "big">> >>, << <<"solo">> >>}}

\* what is appended to a component later
AddedItems ==
  {Item(0, sl, <<"Color", "red">>, n) : sl \in {"item", ""}, n \in {0, 1}}

BlockInit ==
  /\ InitRest
  /\ RumIdle
  /\ pc = "idle"
  /\ defined = {}
  /\ trees = <<<<>>>> /\ nextId = 1
  /\ \E items \in SeqsUpTo(AuthoredItems, MaxItems) :
       blk = [constructed |-> FALSE, threw |-> FALSE, mapValues |-> FALSE,
              values |-> <<>>, shadow |-> "none", observer |-> "none",
              connected |-> FALSE, attaches |-> 0, extractions |-> 0,
              added |-> 0,
              items |-> [i \in 1..Len(items) |-> [items[i] EXCEPT !.id = i]]]

\* the platform upgrades the element: new Block(options)
Construct(mapValues, tmpl) ==
  /\ ~blk.constructed /\ ~blk.threw
  /\ blk' = BlockConstructor(blk, mapValues, tmpl)
  /\ UNCHANGED <<pc, domVars, pageVars, loadVars, regVars, rum>>

\* the element is inserted into a document
Attach ==
  /\ blk.constructed /\ ~blk.connected
  /\ blk' = React([blk EXCEPT !.connected = TRUE,
                              !.attaches = IF @ = 0 THEN 1 ELSE 2],
                  "connectedCallback")
  /\ UNCHANGED <<pc, domVars, pageVars, loadVars, regVars, rum>>

\* the element is removed from its document
Detach ==
  /\ blk.constructed /\ blk.connected
  /\ blk' = React([blk EXCEPT !.connected = FALSE], "disconnectedCallback")
  /\ UNCHANGED <<pc, domVars, pageVars, loadVars, regVars, rum>>

\* a child is appended to the component; an observing observer is then
\* called back with the added node
AddChild(item) ==
  /\ blk.constructed
  /\ blk.added < MaxAdded
  /\ LET n == Len(blk.items) + 1
         b == [blk EXCEPT !.items = Append(@, [item EXCEPT !.id = n]),
                          !.added = @ + 1]
     IN  blk' = IF blk.observer = "observing" THEN DecorateAdded(b, n) ELSE b
  /\ UNCHANGED <<pc, domVars, pageVars, loadVars, regVars, rum>>

BlockNext ==
  \/ \E m \in BOOLEAN, t \in {"none", "template", "other"} : Construct(m, t)
  \/ Attach
  \/ Detach
  \/ \E item \in AddedItems : AddChild(item)

BlockSpec == BlockInit /\ [][BlockNext]_vars

\* C10: the values of a component are extracted once, at construction;
\* afterwards no connect, disconnect or added child changes them, and a
\* child present or added is changed at most by the <img> of an icon.
C10_ValuesExtractedOnce ==
  /\ [](blk.constructed => blk.extractions = 1)
  /\ [][blk.constructed =>
          /\ blk'.values = blk.values
          /\ blk'.extractions = blk.extractions
          /\ \A i \in 1..Len(blk.items) :
               [blk'.items[i] EXCEPT !.imgs = 0] = [blk.items[i] EXCEPT !.imgs = 0]
       ]_vars

\* the component has been detached and attached again with a child added
\* since its construction
C10_Witness ==
  /\ blk.constructed /\ blk.connected /\ blk.attaches = 2
  /\ blk.mapValues /\ Len(blk.values) = 2
  /\ blk.added = 2
  /\ \E i \in 1..Len(blk.items) :
       blk.items[i].slot = "item" /\ blk.items[i].imgs = 1

\* C11: the mutation watcher observes exactly while the component is
\* attached: installed but not started by construction, started by each
\* connect and stopped by each disconnect, so that a child added to a
\* detached component is not icon-decorated.
C11_ObservesWhileAttached ==
  /\ [](blk.constructed =>
          /\ blk.observer = (IF blk.connected THEN "observing" ELSE "installed"))
  /\ [][(blk.constructed /\ ~blk.connected /\ Len(blk'.items) > Len(blk.items))
          => blk'.items[Len(blk'.items)].imgs = 0]_vars

\* the children of a component that carry slot="item"
ItemChildren(items) == {i \in 1..Len(items) : items[i].slot = "item"}

\* the reference result in list mode: the slot="item" children in order
ListReference(items) ==
  LET K == ItemChildren(items)
  IN  [k \in 1..Cardinality(K) |->
         <<CHOOSE i \in K : Cardinality({j \in K : j < i}) = k - 1, 0>>]

\* the reference result in mapped mode: label -> value of the last
\* slot="item" child with that label
MapReference(items) ==
  LET K == ItemChildren(items)
  IN  {<<items[i].cells[1], items[i].cells[2]>> :
         i \in {i \in K : \A j \in K :
                  j > i => items[j].cells[1] # items[i].cells[1]}}

\* C12: a constructor that completes leaves values equal to the reference
\* result over the slot="item" children: in list mode the N children in
\* order and every item as it was; in mapped mode one entry per label with
\* the last child's value, each such child's slot set to its label and its
\* content to its value markup.
C12_ValuesMatchReference ==
  [][(~blk.constructed /\ blk'.constructed) =>
       LET K == ItemChildren(blk.items) IN
       IF blk'.mapValues
       THEN /\ Range(blk'.values) = MapReference(blk.items)
            /\ \A a, c \in 1..Len(blk'.values) :
                 blk'.values[a][1] = blk'.values[c][1] => a = c
            /\ \A i \in K :
                 /\ blk'.items[i].slot = blk.items[i].cells[1]
                 /\ blk'.items[i].html = blk.items[i].cells[2]
            /\ \A i \in (1..Len(blk.items)) \ K : blk'.items[i] = blk.items[i]
       ELSE /\ blk'.values = ListReference(blk.items)
            /\ blk'.items = blk.items]_vars

-----------------------------------------------------------------------------
(* Hero promotion on its own: buildHeroBlock called, and called again *)

\* most items of a main region
MaxHeroItems == 4

\* a main region of headings, picture paragraphs and content blocks, directly
\* in <main> or wrapped in a section <div>
HeroPages ==
  {Renumber(<<Node(0, <<"main">>, <<>>, "unset", 0)>>
            \o (IF wrapped THEN <<Node(0, <<"div">>, <<>>, "unset", 1)>> ELSE <<>>)
            \o [k \in 1..Len(Flatten([i \in 1..Len(items) |-> ItemNodes(items[i])])) |->
                  [Flatten([i \in 1..Len(items) |-> ItemNodes(items[i])])[k]
                     EXCEPT !.depth = IF wrapped THEN @ + 1 ELSE @]]) :
     items \in SeqsUpTo({"h1", "pic", "cards"}, MaxHeroItems),
     wrapped \in BOOLEAN}

HeroInit ==
  /\ InitIdle
  /\ pc = "idle"
  /\ defined = {}
  /\ \E page \in HeroPages :
       /\ trees = <<page>>
       /\ nextId = Len(page) + 1

\* a call of buildHeroBlock (lines 121-141) by a script at position from
HeroCall(from, to) ==
  /\ pc = from
  /\ pc' = to
  /\ trees' = [trees EXCEPT ![1] = buildHeroBlock(trees[1], nextId)]
  /\ nextId' = nextId + HeroFresh(trees[1])
  /\ UNCHANGED <<scanList, scanIdx, components, templates, transformed, passes>>
  /\ UNCHANGED <<pageVars, loadVars, regVars, blk, rum>>

HeroNext ==
  \/ HeroCall("idle", "heroOnce")
  \/ HeroCall("heroOnce", "heroTwice")

HeroSpec == HeroInit /\ [][HeroNext]_vars

\* the headings, and the pictures wrapped in a paragraph, inside main
Headings(t) ==
  {i \in (MainIdx(t) + 1)..SubtreeEnd(t, MainIdx(t)) : t[i].tag = <<"h1">>}

WrappedPictures(t) ==
  {i \in (MainIdx(t) + 1)..SubtreeEnd(t, MainIdx(t)) :
     /\ t[i].tag = <<"picture">>
     /\ \E j \in 1..(i - 1) :
          /\ t[j].tag = <<"p">>
          /\ t[j].depth = t[i].depth - 1
          /\ \A k \in (j + 1)..i : t[k].depth > t[j].depth}

\* the pattern: a heading and a paragraph-wrapped picture, picture first
HeroPattern(t) ==
  /\ Headings(t) # {}
  /\ WrappedPictures(t) # {}
  /\ \E p \in WrappedPictures(t) :
       /\ \A q \in WrappedPictures(t) : p <= q
       /\ \A h \in Headings(t) : p < h

\* a node's tag, class and text: what a clone shares with its original
Markup(n) == <<n.tag, n.cls, n.text>>

\* u is t after a promotion: main's first child is a new hero section whose
\* children are clones of the first wrapped picture and of the first
\* heading, and the originals, with the picture's paragraph, are gone
Promoted(t, u) ==
  LET m   == MainIdx(t)
      p   == MinOf(WrappedPictures(t))
      h   == MinOf(Headings(t))
      old == {t[i].id : i \in 1..Len(t)}
      sec == MainIdx(u) + 1
      pl  == SubtreeEnd(t, p) - p + 1
      hl  == SubtreeEnd(t, h) - h + 1
  IN  /\ MainIdx(u) = m
      /\ u[sec].tag = <<"div">> /\ u[sec].cls = <<"hero">>
      /\ u[sec].depth = u[m].depth + 1
      /\ SubtreeEnd(u, sec) = sec + pl + hl
      /\ \A k \in 1..pl : Markup(u[sec + k]) = Markup(t[p + k - 1])
      /\ \A k \in 1..hl : Markup(u[sec + pl + k]) = Markup(t[h + k - 1])
      /\ u[sec + 1].depth = u[sec].depth + 1
      /\ u[sec + pl + 1].depth = u[sec].depth + 1
      /\ \A k \in sec..(sec + pl + hl) : u[k].id \notin old
      /\ \A i \in Subtree(t, p) \cup Subtree(t, h) \cup {ParentIdx(t, p)} :
           t[i].id \notin {u[k].id : k \in 1..Len(u)}
      /\ \A i \in (1..Len(t)) \ (Subtree(t, ParentIdx(t, p)) \cup Subtree(t, h)) :
           t[i] \in Range(u)

\* C13: a call of buildHeroBlock promotes if and only if main holds a heading
\* and a paragraph-wrapped picture with the picture first; a promotion puts
\* a new hero section with clones of both first into main and removes the
\* originals; otherwise the document is left as it is.
C13_HeroPromotion ==
  [][pc' # pc =>
       IF HeroPattern(trees[1])
       THEN Promoted(trees[1], trees'[1])
       ELSE trees' = trees]_vars

\* a promotion has happened
C13_Witness ==
  /\ pc = "heroOnce"
  /\ Len(trees[1]) > 4
  /\ trees[1][MainIdx(trees[1]) + 1].cls = <<"hero">>

\* C17: a second call of buildHeroBlock directly after a first finds no
\* candidate and changes nothing, whatever further headings and picture
\* paragraphs the main region holds.
C17_HeroIdempotent ==
  /\ [](pc = "heroOnce" => ~HeroCandidate(trees[1]))
  /\ [][pc = "heroOnce" => (trees' = trees /\ nextId' = nextId)]_vars

\* a second call has run on a region that was promoted and still holds a
\* heading and a picture paragraph
C17_Witness ==
  /\ pc = "heroTwice"
  /\ Len(trees[1]) > 4
  /\ trees[1][MainIdx(trees[1]) + 1].cls = <<"hero">>
  /\ Cardinality(Headings(trees[1])) > 1
  /\ WrappedPictures(trees[1]) # {}

-----------------------------------------------------------------------------
(* Telemetry: sampleRUM *)

\* The record rum: installed (sampleRUM has run once, so that its properties
\* exist), override (location.search holds rum=on), defer (sampleRUM.defer:
\* entries of fnname, arg and an arrival number seq), fns (sampleRUM.observe
\* and sampleRUM.cwv: "stub" or an installed implementation), always and
\* cases (the handler tables), cwvData (the data the closures of the
\* built-in cases hold), session (window.hlx.rum), clock (Date.now()), and
\* history: records, calls, drains, regs (operations so far), last (the
\* last sampleRUM call: its checkpoint, the bodies it passed to sendBeacon,
\* the always handler invocations it made and whether one was registered),
\* replays (the calls drain made), scripts (enhancer scripts appended).

\* sampleRUM calls
MaxRecords == 2
\* calls of sampleRUM.observe / sampleRUM.cwv by other scripts
MaxDeferred == 1
\* calls of sampleRUM.drain
MaxDrains == 2
\* handler registrations (sampleRUM.on, sampleRUM.always.on)
MaxHandlers == 1

RumCheckpoints == {"top", "cwv", "lazy"}
RumFns == {"observe", "cwv"}

\* implementations handed to drain
RumImpls == {"implA", "implB"}

\* handlers handed to on / always.on: one that returns, one that throws
RumHandlers == {"ok", "throws"}

\* knownProperties (lines 209-222)
KnownProperties ==
  {"weight", "id", "referer", "checkpoint", "t", "source", "target", "cwv",
   "CLS", "FID", "LCP", "INP"}

\* an object literal: a function from its keys to tagged values
Obj(pairs) ==
  [k \in {p[1] : p \in pairs} |-> (CHOOSE p \in pairs : p[1] = k)[2]]

Str(s) == <<"str", s>>
Num(n) == <<"num", n>>
Undefined == <<"undefined">>

\* what callers pass as data
RumData ==
  {Obj({}),
   Obj({<<"source", Str("a.js")>>, <<"target", Undefined>>,
        <<"foo", Str("bar")>>}),
   Obj({<<"id", Undefined>>})}

\* { ...a, ...b }
Spread(a, b) ==
  [k \in DOMAIN a \cup DOMAIN b |-> IF k \in DOMAIN b THEN b[k] ELSE a[k]]

\* JSON.stringify(obj, allowed) as the mapping the text denotes: the allowed
\* keys of obj whose value is not undefined
Stringify(obj, allowed) ==
  [k \in {k \in DOMAIN obj \cap allowed : obj[k][1] # "undefined"} |-> obj[k]]

\* Math.random() in thousandths, and the id the random filter leaves
RumDraws ==
  {[random |-> 0, id |-> ""], [random |-> 9, id |-> "a7"],
   [random |-> 10, id |-> "a7"]}

\* lines 153-175: the properties sampleRUM gives itself, kept when present
RumInstall(r) ==
  IF r.installed THEN r
  ELSE [installed |-> TRUE, override |-> r.override,
        defer |-> <<>>, fns |-> [f \in RumFns |-> "stub"],
        always |-> [c \in RumCheckpoints |-> "none"],
        cases |-> [defined |-> FALSE], cwvData |-> Obj({}),
        session |-> [created |-> FALSE], clock |-> 0,
        records |-> 0, calls |-> 0, drains |-> 0, regs |-> 0,
        last |-> [checkpoint |-> "", beacons |-> <<>>, always |-> 0,
                  hadAlways |-> FALSE],
        replays |-> <<>>, scripts |-> 0]

\* window.hlx.rum created on every call
RumSessionRecreated(r, draw) ==
  LET weight == IF r.override THEN 1 ELSE 100
  IN  [created |-> TRUE, weight |-> weight, id |-> draw.id,
       random |-> draw.random, isSelected |-> draw.random * weight < 1000,
       firstReadTime |-> r.clock]

\* lines 177-205: window.hlx.rum, created unless present
RumSession(r, draw) ==
  IF r.session.created THEN r.session
  ELSE LET weight == IF r.override THEN 1 ELSE 100
       IN  [created |-> TRUE, weight |-> weight, id |-> draw.id,
            random |-> draw.random, isSelected |-> draw.random * weight < 1000,
            firstReadTime |-> r.clock]

\* lines 224-235: the body sendPing hands to navigator.sendBeacon
PingBody(r, checkpoint, data) ==
  Stringify(
    Spread(Obj({<<"weight", Num(r.session.weight)>>,
                <<"id", Str(r.session.id)>>,
                <<"referer", Str("url")>>,
                <<"checkpoint", Str(checkpoint)>>,
                <<"t", Num(r.clock - r.session.firstReadTime)>>}),
           data),
    KnownProperties)

\* a call sampleRUM[fnname](arg): the stub of lines 154-158 buffers it, an
\* installed implementation runs; the result says whether the call threw
RumCallFn(r, fnname, arg) ==
  IF r.fns[fnname] = "stub"
  THEN [r |-> [r EXCEPT !.defer = Append(@, [fnname |-> fnname, arg |-> arg,
                                             seq |-> Len(r.defer) + 1])],
        threw |-> FALSE]
  ELSE [r |-> r, threw |-> FALSE]

\* lines 253-255: sampleRUM.cases[checkpoint](), with the built-in cases of
\* lines 241-251
RumCase(r, checkpoint) ==
  LET h == r.cases.on[checkpoint] IN
  CASE h = "throws" -> [r |-> r, threw |-> TRUE]
    [] h = "builtin" /\ checkpoint = "cwv" -> RumCallFn(r, "cwv", r.cwvData)
    [] h = "builtin" /\ checkpoint = "lazy" ->
         [r |-> [r EXCEPT !.scripts = @ + 1], threw |-> FALSE]
    [] OTHER -> [r |-> r, threw |-> FALSE]

\* lines 207-256: the part run for a selected session
RumSelected(r, checkpoint, data, sendThrows) ==
  LET r1 == [r EXCEPT
               !.cases = IF @.defined THEN @
                         ELSE [defined |-> TRUE,
                               on |-> [c \in RumCheckpoints |->
                                         IF c \in {"cwv", "lazy"}
                                         THEN "builtin" ELSE "none"]],
               !.cwvData = IF r.cases.defined THEN @ ELSE data,
               !.last.beacons = Append(@, PingBody(r, checkpoint, data))]
  IN  IF sendThrows THEN [r |-> r1, threw |-> TRUE]
      ELSE RumCase(r1, checkpoint)

\* sampleRUM(checkpoint, data), lines 152-263; draw is what Math.random
\* gives, sendThrows whether navigator.sendBeacon throws
sampleRUM(r0, checkpoint, data, draw, sendThrows) ==
  LET r1 == [RumInstall(r0) EXCEPT !.clock = @ + 1, !.records = @ + 1]
      r2 == [r1 EXCEPT
               !.session = RumSession(r1, draw),
               !.last = [checkpoint |-> checkpoint,
                         beacons |-> <<>>, always |-> 0,
                         hadAlways |-> r1.always[checkpoint] # "none"]]
      s  == IF r2.session.isSelected
            THEN RumSelected(r2, checkpoint, data, sendThrows)
            ELSE [r |-> r2, threw |-> FALSE]
  IN  IF s.threw \/ s.r.always[checkpoint] = "none"
      THEN s.r
      ELSE [s.r EXCEPT !.last.always = @ + 1]

\* sampleRUM.drain(dfnname, fn), lines 161-166: fn is installed and the
\* buffered calls of that name are made on it in order; the entries stay in
\* sampleRUM.defer
RumDrain(r, dfnname, fn) ==
  LET made == SelectSeq(r.defer, LAMBDA e : e.fnname = dfnname)
  IN  [r EXCEPT !.fns[dfnname] = fn,
                !.drains = @ + 1,
                !.replays = @ \o [i \in 1..Len(made) |->
                                    [fn |-> fn, fnname |-> made[i].fnname,
                                     seq |-> made[i].seq]]]

RumInit ==
  /\ InitRest
  /\ blk = [constructed |-> FALSE]
  /\ pc = "idle"
  /\ defined = {}
  /\ trees = <<<<>>>> /\ nextId = 1
  /\ rum \in {[installed |-> FALSE, override |-> o] : o \in BOOLEAN}

\* a script calls sampleRUM(checkpoint, data)
Record(checkpoint, data, draw, sendThrows) ==
  /\ rum.installed => rum.records < MaxRecords
  /\ rum' = sampleRUM(rum, checkpoint, data, draw, sendThrows)
  /\ UNCHANGED <<pc, domVars, pageVars, loadVars, regVars, blk>>

\* a script calls sampleRUM.observe(...) or sampleRUM.cwv(...)
CallDeferred(fnname) ==
  /\ rum.installed
  /\ rum.calls < MaxDeferred
  /\ rum' = [RumCallFn(rum, fnname, Obj({})).r EXCEPT !.calls = @ + 1]
  /\ UNCHANGED <<pc, domVars, pageVars, loadVars, regVars, blk>>

\* a script calls sampleRUM.drain(fnname, fn)
Drain(fnname, fn) ==
  /\ rum.installed
  /\ rum.drains < MaxDrains
  /\ rum' = RumDrain(rum, fnname, fn)
  /\ UNCHANGED <<pc, domVars, pageVars, loadVars, regVars, blk>>

\* sampleRUM.always.on(chkpnt, fn), lines 168-170
AlwaysOn(chkpnt, fn) ==
  /\ rum.installed
  /\ rum.regs < MaxHandlers
  /\ rum' = [rum EXCEPT !.always[chkpnt] = fn, !.regs = @ + 1]
  /\ UNCHANGED <<pc, domVars, pageVars, loadVars, regVars, blk>>

\* sampleRUM.on(chkpnt, fn), lines 171-173; before a selected call has
\* created sampleRUM.cases the assignment throws in the caller
On(chkpnt, fn) ==
  /\ rum.installed
  /\ rum.regs < MaxHandlers
  /\ rum' = IF rum.cases.defined
            THEN [rum EXCEPT !.cases.on[chkpnt] = fn, !.regs = @ + 1]
            ELSE [rum EXCEPT !.regs = @ + 1]
  /\ UNCHANGED <<pc, domVars, pageVars, loadVars, regVars, blk>>

RumNext ==
  \/ \E c \in RumCheckpoints, d \in RumData, w \in RumDraws, t \in BOOLEAN :
       Record(c, d, w, t)
  \/ \E f \in RumFns : CallDeferred(f)
  \/ \E f \in RumFns, fn \in RumImpls : Drain(f, fn)
  \/ \E c \in RumCheckpoints, fn \in RumHandlers : AlwaysOn(c, fn)
  \/ \E c \in RumCheckpoints, fn \in RumHandlers : On(c, fn)

RumSpec == RumInit /\ [][RumNext]_vars

\* C14: with the weight forced to 1 by the query parameter, a sampleRUM call
\* makes exactly one sendBeacon call, whose body holds the checkpoint,
\* weight and id fields and no field outside knownProperties, whatever
\* the caller passed as data.
C14_OneWhitelistedBeacon ==
  (rum.installed /\ rum.override) =>
    /\ rum.session.weight = 1
    /\ Len(rum.last.beacons) = 1
    /\ {"checkpoint", "weight", "id"} \subseteq DOMAIN rum.last.beacons[1]
    /\ DOMAIN rum.last.beacons[1] \subseteq KnownProperties

\* the calls drain has made on implementation fn for the buffered call seq
ReplaysOf(fn, seq) ==
  {k \in 1..Len(rum.replays) :
     rum.replays[k].fn = fn /\ rum.replays[k].seq = seq}

\* C15: calls of a deferred function made before an implementation is
\* installed are buffered in arrival order; a call buffered under a name is
\* replayed exactly once to the implementation installed under that name,
\* never more than once to any implementation, in arrival order, and never
\* under another name.
C15_ReplayedOnceInOrder ==
  rum.installed =>
    /\ \A i, j \in 1..Len(rum.defer) :
         i < j => rum.defer[i].seq < rum.defer[j].seq
    /\ \A i \in 1..Len(rum.defer) :
         LET e == rum.defer[i] IN
         /\ rum.fns[e.fnname] # "stub" =>
              Cardinality(ReplaysOf(rum.fns[e.fnname], e.seq)) = 1
         /\ \A fn \in RumImpls : Cardinality(ReplaysOf(fn, e.seq)) <= 1
    /\ \A k \in 1..Len(rum.replays) :
         \E i \in 1..Len(rum.defer) :
           /\ rum.defer[i].seq = rum.replays[k].seq
           /\ rum.defer[i].fnname = rum.replays[k].fnname
    /\ \A k, l \in 1..Len(rum.replays) :
         (k < l /\ rum.replays[k].fn = rum.replays[l].fn
                /\ rum.replays[k].fnname = rum.replays[l].fnname)
           => rum.replays[k].seq < rum.replays[l].seq

\* C16: a sampleRUM call made while an always handler is registered for its
\* checkpoint invokes that handler exactly once, whether or not the session
\* is selected and whatever sendBeacon or a checkpoint handler does.
C16_AlwaysHandlerInvoked ==
  (rum.installed /\ rum.last.hadAlways) => rum.last.always = 1

\* a page on which scripts only record checkpoints
SessionNext ==
  \E c \in RumCheckpoints, d \in RumData, w \in RumDraws, t \in BOOLEAN :
    Record(c, d, w, t)

SessionSpec == RumInit /\ [][SessionNext]_vars

\* C18: the first sampleRUM call creates window.hlx.rum, with weight 1 under
\* the query-parameter override and 100 otherwise and with the inclusion
\* decision random * weight < 1; no later call replaces its weight, id,
\* random draw, decision or clock origin.
C18_SessionFixed ==
  /\ [](rum.installed =>
          /\ rum.session.created
          /\ rum.session.weight = (IF rum.override THEN 1 ELSE 100)
          /\ rum.session.isSelected
               = (rum.session.random * rum.session.weight < 1000)
          /\ rum.session.firstReadTime = 1)
  /\ [][rum.installed => rum'.session = rum.session]_vars

\* a second call has run, later than the first, on a session left out of
\* the sample
C18_Witness ==
  /\ rum.installed
  /\ rum.records = 2 /\ rum.clock = 2
  /\ ~rum.override /\ ~rum.session.isSelected
  /\ rum.session.firstReadTime = 1

-----------------------------------------------------------------------------
(* Properties of the sets of a discovery pass *)

\* the containers the running (or last) pass has transformed: those of its
\* NodeList the forEach has passed that were handed to
\* transformToCustomElement
PassTransformed ==
  {scanList[i] : i \in 1..(scanIdx - 1)} \cap Range(transformed)

\* C19: the components set of a pass is exactly the set of the tag names of
\* the containers the pass transformed (empty when there is none), and the
\* templates set is exactly the components that do not end in -metadata,
\* so a subset of it.
C19_PassSets ==
  /\ Range(components) =
       {TagNameFor(NodeOf(trees, b)) : b \in PassTransformed}
  /\ Range(templates) =
       {k \in Range(components) : k[Len(k)] # "metadata"}
  /\ Range(templates) \subseteq Range(components)
  /\ Cardinality(Range(components)) = Len(components)
  /\ Cardinality(Range(templates)) = Len(templates)

\* a pass has returned a metadata kind among its components
C19_Witness ==
  /\ pc = "idle" /\ passes = 1
  /\ Len(components) = 2
  /\ Len(templates) = 1
  /\ <<"aem", "section", "metadata">> \in Range(components)

\* C20: when the first pass over a document has returned, every kind in
\* components has a custom element in the live document and no eligible
\* container is left there that a second pass would transform.
C20_PassIsComplete ==
  (pc = "idle" /\ passes = 1) =>
    /\ \A k \in Range(components) : \E n \in Range(trees[1]) : n.tag = k
    /\ \A n \in Range(trees[1]) :
         Eligible(n) => n.status \in {"loading", "loaded"}

=============================================================================
